---------------------------- MODULE Spec2Model ----------------------------
(* A model of compiler/compiler.go: the single-pass assembler driver      *)
(* (Compile), its instruction encoders, and the two patch-resolution      *)
(* loops.  Strings of the Go program are sequences of one-character       *)
(* strings, so that strconv.ParseInt, strconv.Atoi and fmt.Sprintf("%d")  *)
(* are computed as conversions.  Byte offsets are 0-based as in Go; the   *)
(* byte at Go index o of a buffer b is b[o + 1].                          *)
EXTENDS Integers, Sequences, FiniteSets, TLC

VARIABLES
    pc,            \* where Compile is: run, patchData, patchLabels, emit, done, failed, panicked
    code,          \* c.code
    data,          \* c.data
    dataOffsets,   \* c.dataOffsets : name -> offset
    patches,       \* c.patches : code offset -> data offset
    labels,        \* c.labels : name -> code offset
    labelTargets,  \* c.labelTargets : code offset -> label name
    pending,       \* keys the running range loop has not visited yet
    ret,           \* what Compile returned (Running while it has not)
    out,           \* the buffers handed to elf.WriteContent, <<>> before the call
    log,           \* history: every statement pulled from the parser, with offsets
    yielded,       \* history: the error the last statement yielded (NoErr if none)
    code0          \* history: c.code as it was when the stream ended

vars == <<pc, code, data, dataOffsets, patches, labels, labelTargets,
          pending, ret, out, log, yielded, code0>>

-----------------------------------------------------------------------------
(* Bounds of the model *)

MaxStmts == 4

EncPrefixLen == 1

-----------------------------------------------------------------------------
(* Strings *)

rax == <<"r", "a", "x">>
rbx == <<"r", "b", "x">>
rcx == <<"r", "c", "x">>
rdx == <<"r", "d", "x">>
rsi == <<"r", "s", "i">>

Registers == {rax, rbx, rcx, rdx}

Digits == <<"0", "1", "2", "3", "4", "5", "6", "7", "8", "9",
            "a", "b", "c", "d", "e", "f", "g", "h", "i", "j", "k", "l", "m",
            "n", "o", "p", "q", "r", "s", "t", "u", "v", "w", "x", "y", "z">>

\* strconv's digit value of a character; 99 for a character that is no digit.
DigitVal(ch) ==
    IF \E k \in 1..Len(Digits) : Digits[k] = ch
    THEN (CHOOSE k \in 1..Len(Digits) : Digits[k] = ch) - 1
    ELSE 99

RECURSIVE ParseDigits(_, _, _)
\* The digit loop of strconv.ParseUint: [ok, val] of s read in the given base.
ParseDigits(s, base, acc) ==
    IF s = <<>> THEN [ok |-> TRUE, val |-> acc]
    ELSE IF DigitVal(Head(s)) >= base THEN [ok |-> FALSE, val |-> 0]
    ELSE ParseDigits(Tail(s), base, acc * base + DigitVal(Head(s)))

\* strconv.ParseUint(s, base, 64); base 0 picks the base from the prefix.
ParseUint(s, base) ==
    IF s = <<>> THEN [ok |-> FALSE, val |-> 0]
    ELSE IF base # 0 THEN ParseDigits(s, base, 0)
    ELSE IF Head(s) # "0" THEN ParseDigits(s, 10, 0)
    ELSE IF Len(s) >= 3 /\ s[2] = "b" THEN ParseDigits(SubSeq(s, 3, Len(s)), 2, 0)
    ELSE IF Len(s) >= 3 /\ s[2] = "o" THEN ParseDigits(SubSeq(s, 3, Len(s)), 8, 0)
    ELSE IF Len(s) >= 3 /\ s[2] = "x" THEN ParseDigits(SubSeq(s, 3, Len(s)), 16, 0)
    ELSE ParseDigits(Tail(s), 8, 0)

\* strconv.ParseInt(s, base, 64): an optional sign, then ParseUint.
ParseInt(s, base) ==
    IF s = <<>> THEN [ok |-> FALSE, val |-> 0]
    ELSE LET neg == Head(s) = "-"
             body == IF Head(s) \in {"+", "-"} THEN Tail(s) ELSE s
             un == ParseUint(body, base)
         IN IF ~un.ok THEN [ok |-> FALSE, val |-> 0]
            ELSE [ok |-> TRUE, val |-> IF neg THEN 0 - un.val ELSE un.val]

\* strconv.Atoi(s) with its error dropped, as at `c.patches[...], _ = strconv.Atoi(...)`.
Atoi(s) == ParseInt(s, 10).val

RECURSIVE FormatNat(_)
FormatNat(n) ==
    IF n < 10 THEN <<Digits[n + 1]>>
    ELSE FormatNat(n \div 10) \o <<Digits[(n % 10) + 1]>>

\* fmt.Sprintf("%d", n)
Sprintf(n) == IF n < 0 THEN <<"-">> \o FormatNat(0 - n) ELSE FormatNat(n)

-----------------------------------------------------------------------------
(* Bytes *)

\* binary.LittleEndian.PutUint32(buf, uint32(v)): the low four bytes of v in
\* two's complement (\div rounds down and % is never negative, so byte k of
\* uint32(v) is (v \div 256^k) % 256 for negative v too).
PutUint32(v) ==
    <<v % 256, (v \div 256) % 256, (v \div 65536) % 256, (v \div 16777216) % 256>>

\* for i, x := range buf { c.code[i+o] = x }, as far as the indices are in range
WriteAt(cd, o, buf) ==
    [k \in 1..Len(cd) |-> IF k - 1 >= o /\ k - 1 < o + Len(buf) THEN buf[k - o] ELSE cd[k]]

\* Go's map read: the zero value for a missing key
MapGet(m, k) == IF k \in DOMAIN m THEN m[k] ELSE 0

\* Go's map write m[k] = v
MapSet(m, k, v) == (k :> v) @@ m

EmptyMap == <<>>

-----------------------------------------------------------------------------
(* Tokens, statements and the compiler's state as a record *)

REGISTER == "REGISTER"
NUMBER == "NUMBER"
IDENTIFIER == "IDENTIFIER"

Tok(t, l) == [Type |-> t, Literal |-> l]

Data(n, cs) == [kind |-> "Data", Name |-> n, Contents |-> cs]
Label(n) == [kind |-> "Label", Name |-> n]
Error(v) == [kind |-> "Error", Value |-> v]
Instruction(m, ops) == [kind |-> "Instruction", Instruction |-> m, Operands |-> ops]
Other == [kind |-> "Other"]

NoErr == ""
Panic == "panic: index out of range"
Running == "running"

\* The fields of Compiler that Compile and the encoders read and write.
C == [code |-> code, data |-> data, dataOffsets |-> dataOffsets,
      patches |-> patches, labels |-> labels, labelTargets |-> labelTargets]

Ok(c) == [c |-> c, err |-> NoErr]
Fail(c, e) == [c |-> c, err |-> e]

\* c.code = append(c.code, bs...)
Emit(c, bs) == [c EXCEPT !.code = c.code \o bs]

LoadBase == 4194304

\* 0x40 + (2 * 0x38): the ELF header and two program headers
HeaderSize == 64 + (2 * 56)

-----------------------------------------------------------------------------
(* The encoders *)

argToByte(t) ==
    LET n == ParseInt(t.Literal, 0)
    IN IF ~n.ok THEN [val |-> 0, err |-> "unable to convert to number"]
       ELSE [val |-> n.val % 256, err |-> NoErr]

argToByteArray(t) ==
    LET n == ParseInt(t.Literal, 0)
    IN IF ~n.ok THEN [buf |-> <<0, 0, 0, 0>>, err |-> "unable to convert to number for register"]
       ELSE [buf |-> PutUint32(n.val), err |-> NoErr]

\* codes of assembleADD: 0x48 0x01 ModRM
AddCodes ==
    (<<rax, rax>> :> <<72, 1, 192>>) @@ (<<rax, rbx>> :> <<72, 1, 216>>) @@
    (<<rax, rcx>> :> <<72, 1, 200>>) @@ (<<rax, rdx>> :> <<72, 1, 208>>) @@
    (<<rbx, rax>> :> <<72, 1, 195>>) @@ (<<rbx, rbx>> :> <<72, 1, 219>>) @@
    (<<rbx, rcx>> :> <<72, 1, 203>>) @@ (<<rbx, rdx>> :> <<72, 1, 211>>) @@
    (<<rcx, rax>> :> <<72, 1, 193>>) @@ (<<rcx, rbx>> :> <<72, 1, 217>>) @@
    (<<rcx, rcx>> :> <<72, 1, 201>>) @@ (<<rcx, rdx>> :> <<72, 1, 209>>) @@
    (<<rdx, rax>> :> <<72, 1, 194>>) @@ (<<rdx, rbx>> :> <<72, 1, 218>>) @@
    (<<rdx, rcx>> :> <<72, 1, 202>>) @@ (<<rdx, rdx>> :> <<72, 1, 210>>)

\* the register switch of assembleADD's register, number case
AddImmPrefix ==
    (rax :> <<72, 5>>) @@ (rbx :> <<72, 129, 195>>) @@
    (rcx :> <<72, 129, 193>>) @@ (rdx :> <<72, 129, 194>>)

\* codes of assembleSUB: 0x48 0x29 ModRM
SubCodes ==
    (<<rax, rax>> :> <<72, 41, 192>>) @@ (<<rax, rbx>> :> <<72, 41, 216>>) @@
    (<<rax, rcx>> :> <<72, 41, 200>>) @@ (<<rax, rdx>> :> <<72, 41, 208>>) @@
    (<<rbx, rax>> :> <<72, 41, 195>>) @@ (<<rbx, rbx>> :> <<72, 41, 219>>) @@
    (<<rbx, rcx>> :> <<72, 41, 203>>) @@ (<<rbx, rdx>> :> <<72, 41, 211>>) @@
    (<<rcx, rax>> :> <<72, 41, 193>>) @@ (<<rcx, rbx>> :> <<72, 41, 217>>) @@
    (<<rcx, rcx>> :> <<72, 41, 201>>) @@ (<<rcx, rdx>> :> <<72, 41, 209>>) @@
    (<<rdx, rax>> :> <<72, 41, 194>>) @@ (<<rdx, rbx>> :> <<72, 41, 218>>) @@
    (<<rdx, rcx>> :> <<72, 41, 202>>) @@ (<<rdx, rdx>> :> <<72, 41, 210>>)

SubImmPrefix ==
    (rax :> <<72, 45>>) @@ (rbx :> <<72, 129, 235>>) @@
    (rcx :> <<72, 129, 233>>) @@ (rdx :> <<72, 129, 234>>)

DecTable ==
    (rax :> <<72, 255, 200>>) @@ (rbx :> <<72, 255, 203>>) @@
    (rcx :> <<72, 255, 201>>) @@ (rdx :> <<72, 255, 202>>)

IncTable ==
    (rax :> <<72, 255, 192>>) @@ (rbx :> <<72, 255, 195>>) @@
    (rcx :> <<72, 255, 193>>) @@ (rdx :> <<72, 255, 194>>)

XorTable ==
    (rax :> <<72, 49, 192>>) @@ (rbx :> <<72, 49, 219>>) @@
    (rcx :> <<72, 49, 201>>) @@ (rdx :> <<72, 49, 210>>)

MovPrefix ==
    (rax :> <<72, 199, 192>>) @@ (rbx :> <<72, 199, 195>>) @@
    (rcx :> <<72, 199, 193>>) @@ (rdx :> <<72, 199, 194>>)

\* The lookup key with source and destination swapped.
RegsKeySwapped(ops) == <<ops[2].Literal, ops[1].Literal>>

\* The key of the register, register lookup: the two operands' literals, in order.
RegsKey(ops) == <<ops[1].Literal, ops[2].Literal>>

\* The body shared by assembleADD and assembleSUB, which differ in their tables
\* and messages only.
RegRegOrImm(c, i, codes, prefix, eImm, eShape) ==
    LET ops == i.Operands
    IN IF Len(ops) < 2 THEN Fail(c, Panic)
       ELSE IF RegsKey(ops) \in DOMAIN codes THEN Ok(Emit(c, codes[RegsKey(ops)]))
       ELSE IF ops[1].Type = REGISTER /\ ops[2].Type = NUMBER
            THEN LET n == argToByteArray(ops[2])
                 IN IF n.err # NoErr THEN Fail(c, n.err)
                    ELSE IF ops[1].Literal \in DOMAIN prefix
                         THEN Ok(Emit(Emit(c, prefix[ops[1].Literal]), n.buf))
                         ELSE Fail(c, eImm)
       ELSE Fail(c, eShape)

\* An assembleADD that appends the REX prefix before it looks at the operands.
assembleADDPartial(c, i) ==
    LET r == RegRegOrImm(c, i, AddCodes, AddImmPrefix,
                         "add number not implemented", "unhandled ADD instruction")
    IN IF r.err \in {NoErr, Panic} THEN r ELSE Fail(Emit(c, <<72>>), r.err)

assembleADD(c, i) ==
    RegRegOrImm(c, i, AddCodes, AddImmPrefix,
                "add number not implemented", "unhandled ADD instruction")

assembleSUB(c, i) ==
    RegRegOrImm(c, i, SubCodes, SubImmPrefix,
                "SUB number not implemented", "unhandled SUB instruction")

\* The body shared by assembleDEC and assembleINC: one register, one table.
OneRegister(c, i, table, e) ==
    LET ops == i.Operands
    IN IF Len(ops) < 1 THEN Fail(c, Panic)
       ELSE IF ops[1].Literal \in DOMAIN table THEN Ok(Emit(c, table[ops[1].Literal]))
       ELSE Fail(c, e)

assembleDEC(c, i) == OneRegister(c, i, DecTable, "unknown argument for DEC")

assembleINC(c, i) == OneRegister(c, i, IncTable, "unknown argument for INC")

assembleXOR(c, i) == OneRegister(c, i, XorTable, "unknown argument for XOR")

\* A register, number case that records the patch at the instruction's first
\* byte instead of at its immediate.
MovNumberEarlyPatch(c, ops, label) ==
    IF ops[1].Literal \in DOMAIN MovPrefix
    THEN LET c1 == Emit(c, MovPrefix[ops[1].Literal])
             n == argToByteArray(ops[2])
             c2 == IF label
                   THEN [c1 EXCEPT !.patches =
                            MapSet(c1.patches, Len(c.code), Atoi(ops[2].Literal))]
                   ELSE c1
         IN IF n.err # NoErr THEN Fail(c1, n.err) ELSE Ok(Emit(c2, n.buf))
    ELSE Fail(c, "moving a constant (number) to an unknown register")

\* The register, number case of assembleMov: the prefix goes out before the
\* number is parsed, so a number that does not parse leaves the prefix behind.
MovNumber(c, ops, label) ==
    IF ops[1].Literal \in DOMAIN MovPrefix
    THEN LET c1 == Emit(c, MovPrefix[ops[1].Literal])
             n == argToByteArray(ops[2])
             c2 == IF label
                   THEN [c1 EXCEPT !.patches =
                            MapSet(c1.patches, Len(c1.code), Atoi(ops[2].Literal))]
                   ELSE c1
         IN IF n.err # NoErr THEN Fail(c1, n.err) ELSE Ok(Emit(c2, n.buf))
    ELSE Fail(c, "moving a constant (number) to an unknown register")

\* assembleMov; the register, identifier case rewrites the operand to the data
\* offset's decimal text and runs the register, number case with label = true.
assembleMov(c, i) ==
    LET ops == i.Operands
    IN IF Len(ops) < 1 THEN Fail(c, Panic)
       ELSE IF ops[1].Type # REGISTER THEN Fail(c, "unknown MOV instruction")
       ELSE IF Len(ops) < 2 THEN Fail(c, Panic)
       ELSE IF ops[2].Type = REGISTER THEN Ok(c)
       ELSE IF ops[2].Type = NUMBER THEN MovNumber(c, ops, FALSE)
       ELSE IF ops[2].Type = IDENTIFIER
            THEN IF ops[2].Literal \in DOMAIN c.dataOffsets
                 THEN MovNumber(c,
                        <<ops[1], Tok(NUMBER, Sprintf(c.dataOffsets[ops[2].Literal]))>>,
                        TRUE)
                 ELSE Fail(c, "reference to unknown label/data")
       ELSE Fail(c, "unknown MOV instruction")

\* A placeholder that is two bytes short.
PushPlaceholderShort == <<0, 0>>

\* the four zero bytes assemblePush leaves for a label's address
PushPlaceholder == <<0, 0, 0, 0>>

assemblePush(c, i) ==
    LET ops == i.Operands
    IN IF Len(ops) < 1 THEN Fail(c, Panic)
       ELSE IF ops[1].Type = NUMBER
            THEN IF Len(ops) < 2 THEN Fail(c, Panic)
                 ELSE LET n == argToByteArray(ops[2])
                      IN IF n.err # NoErr THEN Fail(c, n.err)
                         ELSE Ok(Emit(Emit(c, <<104>>), n.buf))
       ELSE IF ops[1].Type = IDENTIFIER
            THEN LET c1 == Emit(c, <<104>>)
                     c2 == [c1 EXCEPT !.labelTargets =
                              MapSet(c1.labelTargets, Len(c1.code), ops[1].Literal)]
                 IN Ok(Emit(c2, PushPlaceholder))
       ELSE Fail(c, "unknown push-type")

\* the "int" case of compileInstruction
assembleInt(c, i) ==
    IF Len(i.Operands) < 1 THEN Fail(c, Panic)
    ELSE LET n == argToByte(i.Operands[1])
         IN IF n.err # NoErr THEN Fail(c, n.err)
            ELSE Ok(Emit(Emit(c, <<205>>), <<n.val>>))

compileInstruction(c, i) ==
    LET m == i.Instruction
    IN CASE m = <<"a", "d", "d">> -> assembleADD(c, i)
         [] m = <<"d", "e", "c">> -> assembleDEC(c, i)
         [] m = <<"i", "n", "c">> -> assembleINC(c, i)
         [] m = <<"i", "n", "t">> -> assembleInt(c, i)
         [] m = <<"m", "o", "v">> -> assembleMov(c, i)
         [] m = <<"n", "o", "p">> -> Ok(Emit(c, <<144>>))
         [] m = <<"p", "u", "s", "h">> -> assemblePush(c, i)
         [] m = <<"r", "e", "t">> -> Ok(Emit(c, <<195>>))
         [] m = <<"s", "u", "b">> -> assembleSUB(c, i)
         [] m = <<"x", "o", "r">> -> assembleXOR(c, i)
         [] OTHER -> Fail(c, "unknown instruction")

\* A handleData that replaces the data buffer instead of appending to it.
handleDataOverwrite(c, d) ==
    [c EXCEPT !.data = d.Contents,
              !.dataOffsets = MapSet(c.dataOffsets, d.Name, Len(c.data))]

handleData(c, d) ==
    [c EXCEPT !.data = c.data \o d.Contents,
              !.dataOffsets = MapSet(c.dataOffsets, d.Name, Len(c.data))]

-----------------------------------------------------------------------------
(* Patch resolution *)

\* A data address that leaves the code segment's length out.
DataAddressNoCode(v, codeLen) == LoadBase + v + HeaderSize

\* v = 0x400000 + v + len(c.code) + 0x40 + (2 * 0x38)
DataAddress(v, codeLen) == LoadBase + v + codeLen + HeaderSize

\* A label address that leaves the header region out.
LabelAddressNoHeader(offset) == LoadBase + offset

\* offset = 0x400000 + offset + 0x40 + (2 * 0x38)
LabelAddress(offset) == LoadBase + offset + HeaderSize

\* A label lookup with a not-found sentinel instead of Go's zero value.
LabelOffsetNotFound(lbls, s) == IF s \in DOMAIN lbls THEN lbls[s] ELSE 0 - 1

\* offset := c.labels[s]
LabelOffset(lbls, s) == MapGet(lbls, s)

-----------------------------------------------------------------------------
(* The statements the parser may hand over *)

msg == <<"m", "s", "g">>
top == <<"t", "o", "p">>

Names == {msg, top}

mADD == <<"a", "d", "d">>
mSUB == <<"s", "u", "b">>
mINC == <<"i", "n", "c">>
mDEC == <<"d", "e", "c">>
mINT == <<"i", "n", "t">>
mMOV == <<"m", "o", "v">>
mNOP == <<"n", "o", "p">>
mPUSH == <<"p", "u", "s", "h">>
mRET == <<"r", "e", "t">>
mXOR == <<"x", "o", "r">>
mJMP == <<"j", "m", "p">>

Mnemonics == {mADD, mSUB, mINC, mDEC, mINT, mMOV, mNOP, mPUSH, mRET, mXOR, mJMP}

five == <<"5">>
hex80 == <<"0", "x", "8", "0">>
minusOne == <<"-", "1">>
notANumber == <<"z", "z">>

NumberLiterals == {five, hex80, minusOne, notANumber}

Tokens ==
    {Tok(REGISTER, l) : l \in Registers \cup {rsi}}
    \cup {Tok(NUMBER, l) : l \in NumberLiterals}
    \cup {Tok(IDENTIFIER, l) : l \in Names}

OperandLists ==
    {<<>>} \cup {<<t>> : t \in Tokens} \cup {<<t, u>> : t \in Tokens, u \in Tokens}

\* Every instruction over the tokens: the encoders' whole input space.
AllInstructions == {Instruction(m, ops) : m \in Mnemonics, ops \in OperandLists}

\* The statements of the driver's streams.
Stmts ==
    { Data(msg, <<7>>), Data(top, <<8, 9>>), Label(msg), Label(top),
      Error(<<"b", "a", "d">>), Other,
      Instruction(mNOP, <<>>),
      Instruction(mPUSH, <<Tok(IDENTIFIER, msg)>>),
      Instruction(mPUSH, <<Tok(IDENTIFIER, top)>>),
      Instruction(mPUSH, <<Tok(NUMBER, five)>>),
      Instruction(mMOV, <<Tok(REGISTER, rax), Tok(IDENTIFIER, msg)>>),
      Instruction(mMOV, <<Tok(REGISTER, rbx), Tok(IDENTIFIER, top)>>),
      Instruction(mMOV, <<Tok(REGISTER, rax), Tok(NUMBER, five)>>),
      Instruction(mMOV, <<Tok(REGISTER, rax), Tok(NUMBER, notANumber)>>),
      Instruction(mMOV, <<Tok(REGISTER, rax), Tok(REGISTER, rbx)>>),
      Instruction(mADD, <<Tok(REGISTER, rax), Tok(REGISTER, rbx)>>),
      Instruction(mADD, <<Tok(REGISTER, rax), Tok(REGISTER, rsi)>>),
      Instruction(mINT, <<Tok(NUMBER, hex80)>>),
      Instruction(mJMP, <<Tok(IDENTIFIER, top)>>) }

\* The statements that may come before the instruction under test.
EncPrefix ==
    { Data(msg, <<7>>), Label(msg), Error(<<"b", "a", "d">>), Other,
      Instruction(mNOP, <<>>),
      Instruction(mPUSH, <<Tok(IDENTIFIER, msg)>>) }

\* What c.p.Next() may return after n statements: a driver stream is any
\* sequence of at most MaxStmts statements.
DriverStream(n) == IF n < MaxStmts THEN Stmts ELSE {}

\* An encoder stream is a prefix of EncPrefixLen statements, then any one
\* instruction.
EncStream(n) ==
    IF n < EncPrefixLen THEN EncPrefix
    ELSE IF n = EncPrefixLen THEN AllInstructions
    ELSE {}

-----------------------------------------------------------------------------
(* Compile *)

Init ==
    /\ pc = "run"
    /\ code = <<>>
    /\ data = <<>>
    /\ dataOffsets = EmptyMap
    /\ patches = EmptyMap
    /\ labels = EmptyMap
    /\ labelTargets = EmptyMap
    /\ pending = {}
    /\ ret = Running
    /\ out = <<>>
    /\ log = <<>>
    /\ yielded = NoErr
    /\ code0 = <<>>

\* A driver that drops the encoder's error and goes on.
ReturnsNever(e) == FALSE

\* if err != nil { return err }
Returns(e) == e # NoErr

\* One statement pulled and handled, with result r = [c, err]: the fields are
\* written, then Compile returns the error, dies of the panic, or goes on to
\* the next statement.
Handled(s, r) ==
    /\ code' = r.c.code
    /\ data' = r.c.data
    /\ dataOffsets' = r.c.dataOffsets
    /\ patches' = r.c.patches
    /\ labels' = r.c.labels
    /\ labelTargets' = r.c.labelTargets
    /\ log' = Append(log, [stmt |-> s, at |-> Len(code), end |-> Len(r.c.code),
                           dofs |-> dataOffsets])
    /\ yielded' = IF r.err = Panic THEN NoErr ELSE r.err
    /\ IF r.err = Panic THEN pc' = "panicked" /\ ret' = ret
       ELSE IF Returns(r.err) THEN pc' = "failed" /\ ret' = r.err
       ELSE pc' = "run" /\ ret' = ret
    /\ UNCHANGED <<pending, out, code0>>

DataStmt(s) ==
    /\ pc = "run"
    /\ s.kind = "Data"
    /\ Handled(s, Ok(handleData(C, s)))

ErrorStmt(s) ==
    /\ pc = "run"
    /\ s.kind = "Error"
    /\ Handled(s, Fail(C, "error compiling - parser returned error"))

LabelStmt(s) ==
    /\ pc = "run"
    /\ s.kind = "Label"
    /\ Handled(s, Ok([C EXCEPT !.labels = MapSet(labels, s.Name, Len(code))]))

InstructionStmt(s) ==
    /\ pc = "run"
    /\ s.kind = "Instruction"
    /\ Handled(s, compileInstruction(C, s))

OtherStmt(s) ==
    /\ pc = "run"
    /\ s.kind = "Other"
    /\ Handled(s, Fail(C, "unhandled node-type"))

\* Where Compile goes once the data loop has nothing (more) to visit.
ToLabels ==
    IF DOMAIN labelTargets # {}
    THEN pc' = "patchLabels" /\ pending' = DOMAIN labelTargets
    ELSE pc' = "emit" /\ pending' = {}

\* c.p.Next() returns nil: the statement loop ends and the data loop begins.
EndOfStream ==
    /\ pc = "run"
    /\ code0' = code
    /\ IF DOMAIN patches # {}
       THEN pc' = "patchData" /\ pending' = DOMAIN patches
       ELSE ToLabels
    /\ UNCHANGED <<code, data, dataOffsets, patches, labels, labelTargets,
                   ret, out, log, yielded>>

\* One iteration of `for o, v := range c.patches`, on a key of Go's choosing.
PatchData ==
    /\ pc = "patchData"
    /\ \E o \in pending :
        /\ code' = WriteAt(code, o, PutUint32(DataAddress(patches[o], Len(code))))
        /\ IF o + 4 > Len(code) THEN pc' = "panicked" /\ pending' = pending \ {o}
           ELSE IF pending \ {o} # {} THEN pc' = pc /\ pending' = pending \ {o}
           ELSE ToLabels
    /\ UNCHANGED <<data, dataOffsets, patches, labels, labelTargets,
                   ret, out, log, yielded, code0>>

\* One iteration of `for o, s := range c.labelTargets`, on a key of Go's choosing.
PatchLabel ==
    /\ pc = "patchLabels"
    /\ \E o \in pending :
        /\ code' = WriteAt(code, o,
                     PutUint32(LabelAddress(LabelOffset(labels, labelTargets[o]))))
        /\ pending' = pending \ {o}
        /\ pc' = IF o + 4 > Len(code) THEN "panicked"
                 ELSE IF pending \ {o} # {} THEN pc ELSE "emit"
    /\ UNCHANGED <<data, dataOffsets, patches, labels, labelTargets,
                   ret, out, log, yielded, code0>>

\* e.WriteContent(c.output, c.code, c.data), which may fail
WriteContent ==
    /\ pc = "emit"
    /\ out' = <<[code |-> code, data |-> data]>>
    /\ pc' = "done"
    /\ \E ok \in BOOLEAN : ret' = IF ok THEN "nil" ELSE "error writing elf"
    /\ UNCHANGED <<code, data, dataOffsets, patches, labels, labelTargets,
                   pending, log, yielded, code0>>

Next ==
    \/ \E s \in DriverStream(Len(log)) : DataStmt(s)
    \/ \E s \in DriverStream(Len(log)) : ErrorStmt(s)
    \/ \E s \in DriverStream(Len(log)) : LabelStmt(s)
    \/ \E s \in DriverStream(Len(log)) : InstructionStmt(s)
    \/ \E s \in DriverStream(Len(log)) : OtherStmt(s)
    \/ EndOfStream
    \/ PatchData
    \/ PatchLabel
    \/ WriteContent

Spec == Init /\ [][Next]_vars

NextEnc ==
    \/ \E s \in EncStream(Len(log)) : DataStmt(s)
    \/ \E s \in EncStream(Len(log)) : ErrorStmt(s)
    \/ \E s \in EncStream(Len(log)) : LabelStmt(s)
    \/ \E s \in EncStream(Len(log)) : InstructionStmt(s)
    \/ \E s \in EncStream(Len(log)) : OtherStmt(s)
    \/ EndOfStream
    \/ PatchData
    \/ PatchLabel
    \/ WriteContent

SpecEnc == Init /\ [][NextEnc]_vars

-----------------------------------------------------------------------------
(* Vocabulary of the properties *)

\* The four bytes at Go offsets o .. o+3 of cd.
Window(cd, o) == SubSeq(cd, o + 1, o + 4)

IsPrefix(a, b) == Len(a) <= Len(b) /\ SubSeq(b, 1, Len(a)) = a

Last(q) == q[Len(q)]

IsInstr(s, m, n) ==
    s.kind = "Instruction" /\ s.Instruction = m /\ Len(s.Operands) = n

\* push <identifier>
IsPushIdent(s) == IsInstr(s, mPUSH, 1) /\ s.Operands[1].Type = IDENTIFIER

\* push <immediate>, its literal an integer
IsPushImm(s) ==
    /\ IsInstr(s, mPUSH, 1)
    /\ s.Operands[1].Type = NUMBER
    /\ ParseInt(s.Operands[1].Literal, 0).ok

\* mov r, name with r one of the four registers
IsMovIdent(s) ==
    /\ IsInstr(s, mMOV, 2)
    /\ s.Operands[1].Type = REGISTER
    /\ s.Operands[1].Literal \in Registers
    /\ s.Operands[2].Type = IDENTIFIER

\* m r, s with r, s among the four registers
IsRegReg(s, m) ==
    /\ IsInstr(s, m, 2)
    /\ s.Operands[1].Type = REGISTER /\ s.Operands[1].Literal \in Registers
    /\ s.Operands[2].Type = REGISTER /\ s.Operands[2].Literal \in Registers

\* add with an operand pair that is neither a supported register pair nor a
\* (rax|rbx|rcx|rdx, number) pair
IsUnsupportedAdd(s) ==
    /\ IsInstr(s, mADD, 2)
    /\ ~(s.Operands[1].Literal \in Registers /\ s.Operands[2].Literal \in Registers)
    /\ ~(/\ s.Operands[1].Type = REGISTER
         /\ s.Operands[1].Literal \in Registers
         /\ s.Operands[2].Type = NUMBER)

\* Statement k of the stream was handled without an error or a panic.
Succeeded(k) == k < Len(log) \/ (yielded = NoErr /\ pc # "panicked")

Handed == out # <<>>

AllPatchOffsets == DOMAIN patches \cup DOMAIN labelTargets

-----------------------------------------------------------------------------
(* C1 *)

\* C1: when the buffers reach the emitter, every `push <identifier>` whose
\* opcode 0x68 went out at offset P, and whose identifier the label table maps
\* to K, has the little-endian 32-bit encoding of 0x400000 + K + 0xB0 at
\* offsets P+1 .. P+4.
C1_PushLabelResolved ==
    Handed =>
        \A k \in 1..Len(log) :
            LET e == log[k]
            IN (IsPushIdent(e.stmt) /\ e.stmt.Operands[1].Literal \in DOMAIN labels) =>
                  /\ out[1].code[e.at + 1] = 104
                  /\ Window(out[1].code, e.at + 1) =
                        PutUint32(4194304 + labels[e.stmt.Operands[1].Literal] + 176)

\* A push of a label defined later in the stream, at a nonzero offset, and a
\* push of a label defined before it.
C1_Witness ==
    /\ Handed
    /\ \E k \in 1..Len(log) :
          /\ IsPushIdent(log[k].stmt)
          /\ log[k].stmt.Operands[1].Literal \in DOMAIN labels
          /\ labels[log[k].stmt.Operands[1].Literal] > log[k].at
    /\ \E k \in 1..Len(log) :
          /\ IsPushIdent(log[k].stmt)
          /\ log[k].stmt.Operands[1].Literal \in DOMAIN labels
          /\ labels[log[k].stmt.Operands[1].Literal] <= log[k].at

-----------------------------------------------------------------------------
(* C2 *)

\* C2: when the buffers reach the emitter, every `mov r, name` handled while
\* the data table mapped name to D has, after its 3-byte prefix, the
\* little-endian 32-bit encoding of 0x400000 + D + L + 0xB0, L the final
\* length of the code buffer.
C2_MovDataResolved ==
    Handed =>
        \A k \in 1..Len(log) :
            LET e == log[k]
            IN (IsMovIdent(e.stmt) /\ e.stmt.Operands[2].Literal \in DOMAIN e.dofs) =>
                  /\ e.end = e.at + 7
                  /\ SubSeq(out[1].code, e.at + 1, e.at + 3) =
                        MovPrefix[e.stmt.Operands[1].Literal]
                  /\ Window(out[1].code, e.at + 3) =
                        PutUint32(4194304 + e.dofs[e.stmt.Operands[2].Literal]
                                  + Len(out[1].code) + 176)

\* A mov of a block at a nonzero data offset, with code appended after it.
C2_Witness ==
    /\ Handed
    /\ \E k \in 1..Len(log) :
          /\ IsMovIdent(log[k].stmt)
          /\ log[k].stmt.Operands[2].Literal \in DOMAIN log[k].dofs
          /\ log[k].dofs[log[k].stmt.Operands[2].Literal] > 0
          /\ Len(out[1].code) > log[k].end

-----------------------------------------------------------------------------
(* C3 *)

\* C3: a statement that yields an error makes Compile return that error at
\* once: the step that yields it ends in the failed state with that error
\* returned, nothing handed to the emitter and no resolution loop begun, and
\* no step at all is taken after it (no statement pulled, no patch resolved).
C3_ErrorAborts ==
    [][/\ yielded = NoErr
       /\ (yielded' # NoErr =>
             /\ pc' = "failed"
             /\ ret' = yielded'
             /\ out' = <<>>
             /\ pending' = {}
             /\ code0' = <<>>)]_vars

\* An error after code and a patch were recorded.
C3_Witness ==
    /\ yielded # NoErr
    /\ pc = "failed"
    /\ ret = yielded
    /\ Len(log) >= 2
    /\ AllPatchOffsets # {}

-----------------------------------------------------------------------------
(* C4 *)

\* C4: an add whose operand pair is neither a supported register pair nor a
\* (rax|rbx|rcx|rdx, number) pair returns an error (an operand-shape error,
\* unless its second operand is a number token that is no integer) and leaves
\* the code buffer, the data buffer, both symbol tables and both patch sets
\* as they were.
C4_AddUnsupportedNoEmission ==
    [][(Len(log') = Len(log) + 1 /\ IsUnsupportedAdd(Last(log').stmt)) =>
          /\ yielded' # NoErr
          /\ ((Last(log').stmt.Operands[2].Type = NUMBER
                  => ParseInt(Last(log').stmt.Operands[2].Literal, 0).ok)
              => yielded' \in {"unhandled ADD instruction", "add number not implemented"})
          /\ pc' = "failed"
          /\ ret' = yielded'
          /\ code' = code
          /\ data' = data
          /\ dataOffsets' = dataOffsets
          /\ patches' = patches
          /\ labels' = labels
          /\ labelTargets' = labelTargets]_vars

\* `add rax, rsi` after code was generated.
C4_Witness ==
    /\ pc = "failed"
    /\ Len(log) >= 2
    /\ IsUnsupportedAdd(Last(log).stmt)
    /\ Last(log).stmt.Operands = <<Tok(REGISTER, rax), Tok(REGISTER, rsi)>>
    /\ code # <<>>

-----------------------------------------------------------------------------
(* C5 *)

EmptyC == [code |-> <<>>, data |-> <<>>, dataOffsets |-> EmptyMap,
           patches |-> EmptyMap, labels |-> EmptyMap, labelTargets |-> EmptyMap]

\* What one statement does to a compiler state.
StepOf(c, s) ==
    CASE s.kind = "Data" -> handleData(c, s)
      [] s.kind = "Label" -> [c EXCEPT !.labels = MapSet(c.labels, s.Name, Len(c.code))]
      [] s.kind = "Instruction" -> compileInstruction(c, s).c
      [] OTHER -> c

RECURSIVE Replay(_)
\* The compiler state a fresh compilation has after the first k statements.
Replay(k) == IF k = 0 THEN EmptyC ELSE StepOf(Replay(k - 1), log[k].stmt)

Min(S) == CHOOSE x \in S : \A y \in S : x <= y

RECURSIVE DataPatchesAscending(_, _, _)
DataPatchesAscending(cd, todo, c) ==
    IF todo = {} THEN cd
    ELSE DataPatchesAscending(
            WriteAt(cd, Min(todo), PutUint32(DataAddress(c.patches[Min(todo)], Len(cd)))),
            todo \ {Min(todo)}, c)

RECURSIVE LabelPatchesAscending(_, _, _)
LabelPatchesAscending(cd, todo, c) ==
    IF todo = {} THEN cd
    ELSE LabelPatchesAscending(
            WriteAt(cd, Min(todo),
                    PutUint32(LabelAddress(LabelOffset(c.labels, c.labelTargets[Min(todo)])))),
            todo \ {Min(todo)}, c)

\* The buffers of a second compilation of the same stream, from fresh state,
\* that visits each patch set in ascending order of offset.
SecondCompilation ==
    LET c == Replay(Len(log))
    IN [code |-> LabelPatchesAscending(
                    DataPatchesAscending(c.code, DOMAIN c.patches, c),
                    DOMAIN c.labelTargets, c),
        data |-> c.data]

\* C5: the buffers handed to the emitter are those of any other compilation
\* of the same stream, in whatever order the patches of each set were visited.
C5_Deterministic == Handed => out[1] = SecondCompilation

\* Several patches of each kind, so that there are orders to choose from.
C5_Witness ==
    /\ Handed
    /\ Cardinality(DOMAIN labelTargets) >= 2
    /\ DOMAIN patches # {}
    /\ out[1].code # code0

-----------------------------------------------------------------------------
(* C6 *)

\* C6: a push whose single operand is an immediate n appends exactly the five
\* bytes 0x68 and the little-endian 32-bit n, creates no patch and succeeds.
C6_PushImmediate ==
    \A k \in 1..Len(log) :
        LET e == log[k]
        IN IsPushImm(e.stmt) =>
              /\ Succeeded(k)
              /\ e.end = e.at + 5
              /\ SubSeq(code, e.at + 1, e.at + 5) =
                    <<104>> \o PutUint32(ParseInt(e.stmt.Operands[1].Literal, 0).val)
              /\ \A o \in AllPatchOffsets : o < e.at \/ o >= e.end

\* What the code does with such a push: it reads a second operand.
C6_PushImmediatePanics ==
    \A k \in 1..Len(log) :
        IsPushImm(log[k].stmt) =>
            /\ k = Len(log)
            /\ pc = "panicked"
            /\ ret = Running
            /\ log[k].end = log[k].at

-----------------------------------------------------------------------------
(* C7 *)

\* The table entry of either mnemonic for a register pair.
TableEntry(m, r, s) == IF m = mADD THEN AddCodes[<<r, s>>] ELSE SubCodes[<<r, s>>]

\* C7: `add r, s` and `sub r, s` over the four registers succeed and append
\* exactly the three bytes of their table's entry for (r, s), which are the
\* entry of no other pair of that table.
C7_RegRegTables ==
    \A k \in 1..Len(log) : \A m \in {mADD, mSUB} :
        LET e == log[k]
            r == e.stmt.Operands[1].Literal
            s == e.stmt.Operands[2].Literal
        IN IsRegReg(e.stmt, m) =>
              /\ Succeeded(k)
              /\ e.end = e.at + 3
              /\ SubSeq(code, e.at + 1, e.end) = TableEntry(m, r, s)
              /\ \A r2 \in Registers, s2 \in Registers :
                    <<r2, s2>> # <<r, s>> =>
                        TableEntry(m, r2, s2) # SubSeq(code, e.at + 1, e.end)

\* `sub rdx, rax` appended to code that was there before.
C7_Witness ==
    /\ Len(log) >= 2
    /\ IsRegReg(Last(log).stmt, mSUB)
    /\ Last(log).stmt.Operands[1].Literal = rdx
    /\ Last(log).stmt.Operands[2].Literal = rax
    /\ Last(log).at > 0
    /\ Len(code) = Last(log).at + 3

-----------------------------------------------------------------------------
(* C8 *)

\* C8, as stated: between two statements every recorded patch, of either
\* kind, lies within the code buffer and sits on four zero bytes.
C8_ZeroPlaceholders ==
    pc = "run" =>
        \A o \in AllPatchOffsets :
            o + 4 <= Len(code) /\ Window(code, o) = <<0, 0, 0, 0>>

\* C8, amended: between two statements every recorded patch lies within the
\* code buffer; a label-reference patch sits on four zero bytes, and a
\* data-reference patch on the little-endian 32-bit encoding of the data
\* offset it stores.
C8_Placeholders ==
    pc = "run" =>
        /\ \A o \in DOMAIN labelTargets :
              o + 4 <= Len(code) /\ Window(code, o) = <<0, 0, 0, 0>>
        /\ \A o \in DOMAIN patches :
              /\ o + 4 <= Len(code)
              /\ Window(code, o) = <<patches[o] % 256, (patches[o] \div 256) % 256,
                                     (patches[o] \div 65536) % 256,
                                     (patches[o] \div 16777216) % 256>>

\* A data patch of a nonzero offset beside a label patch.
C8_Witness ==
    /\ pc = "run"
    /\ \E o \in DOMAIN patches : patches[o] > 0
    /\ DOMAIN labelTargets # {}

-----------------------------------------------------------------------------
(* C9 *)

\* Go offset k - 1 lies in the window of a recorded patch.
InAWindow(k) == \E o \in AllPatchOffsets : k - 1 >= o /\ k - 1 < o + 4

\* C9: a statement only appends to the code and data buffers; a resolution
\* step keeps the code buffer's length, the data buffer, and every code byte
\* outside the windows of the recorded patches; what the emitter receives
\* differs from the buffers at the end of the stream inside those windows only.
C9_AppendOnlyThenWindows ==
    [][/\ (pc = "run" => (IsPrefix(code, code') /\ IsPrefix(data, data')))
       /\ (pc \in {"patchData", "patchLabels"} =>
             /\ Len(code') = Len(code)
             /\ data' = data
             /\ \A k \in 1..Len(code) : (code'[k] # code[k] => InAWindow(k)))
       /\ (pc = "emit" =>
             /\ out' = <<[code |-> code, data |-> data]>>
             /\ Len(code) = Len(code0)
             /\ \A k \in 1..Len(code) : (code[k] # code0[k] => InAWindow(k)))]_vars

\* Resolution rewrote a window of code that has bytes outside the windows,
\* and there is data.
C9_Witness ==
    /\ pc = "done"
    /\ out[1].code # code0
    /\ \E k \in 1..Len(code) : ~InAWindow(k)
    /\ data # <<>>

-----------------------------------------------------------------------------
(* C10 *)

\* C10: a `push <identifier>` yields no error and no panic; resolution never
\* panics; and when the buffers reach the emitter, every such push whose
\* identifier is not in the label table has B0 00 40 00, the little-endian
\* encoding of 0x4000B0, at offsets P+1 .. P+4.
C10_MissingLabelIsZero ==
    /\ \A k \in 1..Len(log) : IsPushIdent(log[k].stmt) => Succeeded(k)
    /\ (pc = "panicked" => (pending = {} /\ code0 = <<>>))
    /\ (Handed =>
          \A k \in 1..Len(log) :
              (IsPushIdent(log[k].stmt)
                  /\ log[k].stmt.Operands[1].Literal \notin DOMAIN labels) =>
                    Window(out[1].code, log[k].at + 1) = <<176, 0, 64, 0>>)

\* A push of the name of a data block that is no label, after other code.
C10_Witness ==
    /\ Handed
    /\ \E k \in 1..Len(log) :
          /\ IsPushIdent(log[k].stmt)
          /\ log[k].stmt.Operands[1].Literal \notin DOMAIN labels
          /\ log[k].stmt.Operands[1].Literal \in DOMAIN dataOffsets
          /\ log[k].at > 0

=============================================================================
